---- MODULE Spec2Model ----
(***************************************************************************)
(* Bypass Subtitles: the content script's capture / flush / dispatch       *)
(* pipeline (src/extension/content.js) with the background worker's Groq   *)
(* call (src/unnamed/part_002) as the request/response backend.            *)
(*                                                                         *)
(* Every handler of the content script runs to completion on the page's    *)
(* event loop, so one action is one handler, up to its first real          *)
(* suspension (an await on a promise the environment settles later).       *)
(***************************************************************************)
EXTENDS Integers, Sequences, FiniteSets, TLC

(***************************************************************************)
(* Program constants                                                       *)
(***************************************************************************)
AUDIO_CHUNK_DURATION_MS == 3000
MAX_LAG_MS == 5000
MIN_CHUNK_MS == 2000
MAX_CHUNK_MS == 6000
CHUNK_STEP_MS == 500
\* the attempts of the documented sendWithRetry, part_000:31
MAX_RETRIES == 3

(***************************************************************************)
(* Bounds of the model                                                     *)
(***************************************************************************)
MaxTimers == 2      \* interval timers alive at once (tracked + orphaned)
MaxInflight == 2    \* chrome.runtime.sendMessage calls awaiting a response
MaxBuf == 2         \* bursts held in audioChunks
MaxSockets == 2     \* WebSocket objects not yet closed
MaxReconnects == 1  \* pending reconnect timeouts

(***************************************************************************)
(* Inputs                                                                  *)
(***************************************************************************)
\* one video element; removing it and adding it again stands for a new video
Videos == {1}
\* getChannelData(0) of one audioprocess event: Float32 samples, written in
\* quarters of full scale (4 is 1.0, -4 is -1.0)
Bursts == {<<1>>, <<-4, 4>>}
ApiModes == {"groq", "local"}
\* Date.now() differences measured around a request, in ms
ProcTimes == {500, 2000, 5000}
\* Date.now() is read in whole seconds here: the epoch value in ms exceeds
\* the checker's integers.  1 700 000 000 s is a wall clock of late 2023.
NowEpoch == 17 * 100000000
WallClockSecs == {NowEpoch + 4, NowEpoch + 9}
\* video.currentTime in seconds: an ordinary position in a file, and the
\* epoch-based timeline of a live stream
VideoTimes == {10, NowEpoch + 3}
Responses == {"text", "empty", "error", "throw"}
\* wall-clock ms between the capture of a chunk's oldest burst and its flush
\* (the code never reads this; the interval may fire a little or very late)
WallAges == {4000, 9000}
\* the arguments adaptChunkSize is tried on: every duration it can hold, and
\* processing times across both thresholds of each
Durations == {MIN_CHUNK_MS + CHUNK_STEP_MS * k : k \in 0..8}
AdaptTimes == {50 * k : k \in 0..130}

\* video.playbackRate in tenths: 1.0x, 1.8x and 2.5x
PlaybackRates == {10, 18, 25}

Min(a, b) == IF a < b THEN a ELSE b
Max(a, b) == IF a > b THEN a ELSE b

VARIABLES
    isEnabled,            \* content.js:17
    activeVideo,          \* content.js:18, 0 is null
    pageVideos,           \* document.querySelectorAll('video')
    listening,            \* videos that carry the listeners of setupVideoEventListeners
    audioProcessor,       \* content.js:21, TRUE when non-null
    orphanProcessor,      \* a processor that was overwritten without disconnect()
    websocket,            \* content.js:22, 0 is null, else a socket id
    sockets,              \* socket id -> [state, awaited]
    reconnects,           \* pending setTimeout callbacks of onclose
    audioChunks,          \* content.js:23
    subtitleOverlay,      \* content.js:24, TRUE when non-null
    displayed,            \* videoTime of the chunk whose text the overlay shows, 0 when empty
    sendInterval,         \* content.js:25, 0 is null, else a timer id
    timers,               \* timer id -> period of every interval not cleared
    currentChunkDuration, \* content.js:28
    lagAccumulator,       \* content.js:30
    apiMode,              \* currentSettings.apiMode
    inflight,             \* requests sent to the background worker, oldest first
    lastOp                \* the handler that ran last, with what it observed

vars == <<isEnabled, activeVideo, pageVideos, listening, audioProcessor,
          orphanProcessor, websocket, sockets, reconnects, audioChunks,
          subtitleOverlay, displayed, sendInterval, timers,
          currentChunkDuration, lagAccumulator, apiMode,
          inflight, lastOp>>

(***************************************************************************)
(* Timers: setInterval / clearInterval                                     *)
(***************************************************************************)
FreeId(used, max) ==
    CHOOSE i \in 1..(max + 1) : i \notin used /\ \A j \in 1..(i - 1) : j \in used

setInterval(ts, period) ==
    LET id == FreeId(DOMAIN ts, MaxTimers)
    IN [i \in DOMAIN ts \cup {id} |-> IF i \in DOMAIN ts THEN ts[i] ELSE period]

clearInterval(ts, id) == [i \in DOMAIN ts \ {id} |-> ts[i]]

(***************************************************************************)
(* adaptChunkSize, content.js:699-714, as a function of the duration and   *)
(* the measured processing time.  D * 0.8 and D * 0.3 are exact in double  *)
(* arithmetic for every duration the program reaches (multiples of 500),   *)
(* so the comparisons are the integer comparisons below.                   *)
(***************************************************************************)
\* adaptChunkSize without the caps of Math.min / Math.max and the range tests
adaptChunkSize_NoClamp(D, p) ==
    IF p * 10 > D * 8 THEN D + CHUNK_STEP_MS
    ELSE IF p * 10 < D * 3 THEN D - CHUNK_STEP_MS
         ELSE D

\* adaptChunkSize with >= in place of > at the slow threshold
adaptChunkSize_Inclusive(D, p) ==
    IF p * 10 >= D * 8 /\ D < MAX_CHUNK_MS
    THEN Min(MAX_CHUNK_MS, D + CHUNK_STEP_MS)
    ELSE IF p * 10 < D * 3 /\ D > MIN_CHUNK_MS
         THEN Max(MIN_CHUNK_MS, D - CHUNK_STEP_MS)
         ELSE D

\* adaptChunkSize with the fast threshold at 0.1 of the duration
adaptChunkSize_FastBelowTenth(D, p) ==
    IF p * 10 > D * 8 /\ D < MAX_CHUNK_MS
    THEN Min(MAX_CHUNK_MS, D + CHUNK_STEP_MS)
    ELSE IF p * 10 < D /\ D > MIN_CHUNK_MS
         THEN Max(MIN_CHUNK_MS, D - CHUNK_STEP_MS)
         ELSE D

\* the duration moves by half a step
adaptChunkSize_HalfStep(D, p) ==
    IF p * 10 > D * 8 /\ D < MAX_CHUNK_MS
    THEN Min(MAX_CHUNK_MS, D + (CHUNK_STEP_MS \div 2))
    ELSE IF p * 10 < D * 3 /\ D > MIN_CHUNK_MS
         THEN Max(MIN_CHUNK_MS, D - (CHUNK_STEP_MS \div 2))
         ELSE D

adaptChunkSize(D, p) ==
    IF p * 10 > D * 8 /\ D < MAX_CHUNK_MS
    THEN Min(MAX_CHUNK_MS, D + CHUNK_STEP_MS)
    ELSE IF p * 10 < D * 3 /\ D > MIN_CHUNK_MS
         THEN Max(MIN_CHUNK_MS, D - CHUNK_STEP_MS)
         ELSE D

(***************************************************************************)
(* restartSendInterval, content.js:719-732: the values of timers and       *)
(* sendInterval after the call.                                            *)
(***************************************************************************)
\* the old interval is cleared and the new one never gets registered, while
\* sendInterval keeps the old id
restartSendInterval_Stopped(ts, si, D) ==
    [timers |-> IF si # 0 THEN clearInterval(ts, si) ELSE ts, sendInterval |-> si]

\* the old interval is cleared and no new one is registered
restartSendInterval_ClearOnly(ts, si, D) ==
    LET cleared == IF si # 0 THEN clearInterval(ts, si) ELSE ts
    IN [timers |-> cleared, sendInterval |-> 0]

restartSendInterval(ts, si, D) ==
    LET cleared == IF si # 0 THEN clearInterval(ts, si) ELSE ts
    IN [timers |-> setInterval(cleared, D),
        sendInterval |-> FreeId(DOMAIN cleared, MaxTimers)]

\* the timers a restart leaves alive fit the bound of the model
RestartFits(ts, si) == Cardinality(DOMAIN ts \ {si}) < MaxTimers

(***************************************************************************)
(* The skip test of sendToGroqAPI, content.js:660-661:                     *)
(*   chunkAge = Date.now() - videoTime * 1000;  chunkAge > MAX_LAG_MS      *)
(* with both instants in whole seconds, so that the test in ms is the      *)
(* test in seconds below.                                                  *)
(***************************************************************************)
chunkAgeSecs(now, videoTime) == now - videoTime

\* the skip test comparing against twice the allowed lag
tooFarBehind_Doubled(now, videoTime) ==
    chunkAgeSecs(now, videoTime) > 2 * (MAX_LAG_MS \div 1000)

tooFarBehind(now, videoTime) ==
    chunkAgeSecs(now, videoTime) > MAX_LAG_MS \div 1000

(***************************************************************************)
(* startAudioCapture, content.js:537-615, from the state (av, ap, orph,    *)
(* ts, si); ok says whether captureStream() yields an audio track and the  *)
(* audio graph is built without an exception.                              *)
(***************************************************************************)
startAudioCapture(av, ap, orph, ts, si, ok) ==
    IF av = 0 \/ ~ok
    THEN [audioProcessor |-> ap, orphanProcessor |-> orph,
          timers |-> ts, sendInterval |-> si]
    ELSE [audioProcessor |-> TRUE, orphanProcessor |-> orph \/ ap,
          timers |-> setInterval(ts, AUDIO_CHUNK_DURATION_MS),
          sendInterval |-> FreeId(DOMAIN ts, MaxTimers)]

StartFits(ts) == Cardinality(DOMAIN ts) < MaxTimers

(***************************************************************************)
(* WebSocket objects                                                       *)
(***************************************************************************)
readyState(id) == IF id \in DOMAIN sockets THEN sockets[id].state ELSE "closed"

FreeSocket == FreeId(DOMAIN sockets \cup {websocket}, MaxSockets + 1)

SocketFits == Cardinality(DOMAIN sockets) < MaxSockets

\* new WebSocket(url) of connectWebSocket, content.js:501
newSocket(ss, id, awaited) ==
    [i \in DOMAIN ss \cup {id} |->
        IF i = id THEN [state |-> "connecting", awaited |-> awaited] ELSE ss[i]]

\* websocket.close(), content.js:478
closeSocket(ss, id) ==
    [i \in DOMAIN ss |-> IF i = id THEN [ss[i] EXCEPT !.state = "closing"] ELSE ss[i]]

dropSocket(ss, id) == [i \in DOMAIN ss \ {id} |-> ss[i]]

RECURSIVE MarkStale(_)
MarkStale(q) ==
    IF q = <<>> THEN <<>>
    ELSE <<[Head(q) EXCEPT !.stale = TRUE]>> \o MarkStale(Tail(q))

RemoveAt(q, i) == SubSeq(q, 1, i - 1) \o SubSeq(q, i + 1, Len(q))

FirstVideo(vs) == CHOOSE v \in vs : \A w \in vs : v <= w

(***************************************************************************)
(* Init: the content script has loaded; loadSettings has read the stored   *)
(* apiMode and detectVideos has auto-selected a single video.              *)
(***************************************************************************)
Init ==
    /\ isEnabled = FALSE
    /\ pageVideos \in SUBSET Videos
    /\ activeVideo = IF Cardinality(pageVideos) = 1 THEN FirstVideo(pageVideos) ELSE 0
    /\ listening = {}
    /\ audioProcessor = FALSE
    /\ orphanProcessor = FALSE
    /\ websocket = 0
    /\ sockets = [i \in {} |-> 0]
    /\ reconnects = 0
    /\ audioChunks = <<>>
    /\ subtitleOverlay = FALSE
    /\ displayed = 0
    /\ sendInterval = 0
    /\ timers = [i \in {} |-> 0]
    /\ currentChunkDuration = AUDIO_CHUNK_DURATION_MS
    /\ lagAccumulator = 0
    /\ apiMode \in ApiModes
    /\ inflight = <<>>
    /\ lastOp = [op |-> "init"]

(***************************************************************************)
(* handleMessage 'enable', content.js:92-98, with enableSubtitles,         *)
(* content.js:382-415.  settings is the apiMode of message.settings, or    *)
(* "keep" when the message carries none (background.js:19-21).  In local   *)
(* mode the handler suspends at `await connectWebSocket()`; the rest runs  *)
(* in SocketOpen.                                                          *)
(***************************************************************************)
enableSubtitles(settings, ok) ==
    LET mode == IF settings = "keep" THEN apiMode ELSE settings
        av == IF activeVideo # 0 THEN activeVideo
              ELSE IF pageVideos = {} THEN 0 ELSE FirstVideo(pageVideos)
        cap == startAudioCapture(av, audioProcessor, orphanProcessor,
                                 timers, sendInterval, ok)
    IN /\ apiMode' = mode
       /\ activeVideo' = av
       /\ IF av = 0
          THEN /\ UNCHANGED <<isEnabled, listening, audioProcessor, orphanProcessor,
                              websocket, sockets, subtitleOverlay, sendInterval, timers>>
               /\ lastOp' = [op |-> "enable", started |-> FALSE]
          ELSE /\ isEnabled' = TRUE
               /\ listening' = listening \cup {av}
               /\ IF mode = "local"
                  THEN /\ SocketFits
                       /\ websocket' = FreeSocket
                       /\ sockets' = newSocket(sockets, FreeSocket, TRUE)
                       /\ UNCHANGED <<audioProcessor, orphanProcessor, subtitleOverlay,
                                      sendInterval, timers>>
                  ELSE /\ ok => StartFits(timers)
                       /\ audioProcessor' = cap.audioProcessor
                       /\ orphanProcessor' = cap.orphanProcessor
                       /\ timers' = cap.timers
                       /\ sendInterval' = cap.sendInterval
                       /\ subtitleOverlay' = TRUE
                       /\ UNCHANGED <<websocket, sockets>>
               /\ lastOp' = [op |-> "enable", started |-> TRUE]
       /\ UNCHANGED <<pageVideos, reconnects, audioChunks, displayed,
                      currentChunkDuration, lagAccumulator,
                      inflight>>

Enable == \E settings \in ApiModes \cup {"keep"}, ok \in BOOLEAN : enableSubtitles(settings, ok)

\* the same handler on a page whose settings never leave the Groq mode
EnableGroq == \E settings \in {"groq", "keep"}, ok \in BOOLEAN : enableSubtitles(settings, ok)

(***************************************************************************)
(* handleMessage 'disable', content.js:100-103, with disableSubtitles,     *)
(* content.js:469-492, and stopAudioCapture, content.js:779-797.  The      *)
(* requests in flight are marked: they were sent by the session that ends  *)
(* here.                                                                   *)
(***************************************************************************)
disableSubtitles ==
    /\ isEnabled' = FALSE
    /\ audioProcessor' = FALSE
    /\ audioChunks' = <<>>
    /\ sockets' = IF websocket # 0 /\ websocket \in DOMAIN sockets
                  THEN closeSocket(sockets, websocket) ELSE sockets
    /\ websocket' = 0
    /\ timers' = IF sendInterval # 0 THEN clearInterval(timers, sendInterval) ELSE timers
    /\ sendInterval' = 0
    /\ subtitleOverlay' = FALSE
    /\ displayed' = 0
    /\ inflight' = MarkStale(inflight)
    /\ lastOp' = [op |-> "disable"]
    /\ UNCHANGED <<activeVideo, pageVideos, listening, orphanProcessor, reconnects,
                   currentChunkDuration, lagAccumulator, apiMode>>

Disable == disableSubtitles

(***************************************************************************)
(* handleMessage 'updateSettings', content.js:118-124                      *)
(***************************************************************************)
\* the message is answered and its settings are not stored
updateSettings_Ignored(mode) ==
    /\ lastOp' = [op |-> "updateSettings"]
    /\ UNCHANGED <<isEnabled, activeVideo, pageVideos, listening, audioProcessor,
                   orphanProcessor, websocket, sockets, reconnects, audioChunks,
                   subtitleOverlay, displayed, sendInterval, timers,
                   currentChunkDuration, lagAccumulator, apiMode, inflight>>

updateSettings(mode) ==
    /\ apiMode' = mode
    /\ lastOp' = [op |-> "updateSettings"]
    /\ UNCHANGED <<isEnabled, activeVideo, pageVideos, listening, audioProcessor,
                   orphanProcessor, websocket, sockets, reconnects, audioChunks,
                   subtitleOverlay, displayed, sendInterval, timers,
                   currentChunkDuration, lagAccumulator, inflight>>

UpdateSettings == \E mode \in ApiModes : updateSettings(mode)

(***************************************************************************)
(* audioProcessor.onaudioprocess, content.js:579-590, fired by any         *)
(* processor still connected.                                              *)
(***************************************************************************)
\* the conversion loop of onaudioprocess, content.js:584-587:
\*   int16Data[i] = Math.max(-32768, Math.min(32767, inputData[i] * 32768))
\* on samples given in quarters of full scale
int16Data(inputData) ==
    [i \in 1..Len(inputData) |-> Max(-32768, Min(32767, inputData[i] * (32768 \div 4)))]

\* the callback appends without looking at isEnabled
onaudioprocess_NoEnabledCheck(burst) ==
    /\ audioProcessor \/ orphanProcessor
    /\ Len(audioChunks) < MaxBuf
    /\ audioChunks' = Append(audioChunks, int16Data(burst))
    /\ lastOp' = [op |-> "onaudioprocess"]
    /\ UNCHANGED <<isEnabled, activeVideo, pageVideos, listening, audioProcessor,
                   orphanProcessor, websocket, sockets, reconnects, subtitleOverlay,
                   displayed, sendInterval, timers, currentChunkDuration,
                   lagAccumulator, apiMode, inflight>>

\* the callback waits for the requests in flight before it appends
onaudioprocess_Blocking(burst) ==
    /\ audioProcessor \/ orphanProcessor
    /\ inflight = <<>>
    /\ isEnabled => Len(audioChunks) < MaxBuf
    /\ audioChunks' = IF ~isEnabled THEN audioChunks
                    ELSE Append(audioChunks, int16Data(burst))
    /\ lastOp' = [op |-> "onaudioprocess"]
    /\ UNCHANGED <<isEnabled, activeVideo, pageVideos, listening, audioProcessor,
                   orphanProcessor, websocket, sockets, reconnects, subtitleOverlay,
                   displayed, sendInterval, timers, currentChunkDuration,
                   lagAccumulator, apiMode, inflight>>

onaudioprocess(burst) ==
    /\ audioProcessor \/ orphanProcessor
    /\ isEnabled => Len(audioChunks) < MaxBuf
    /\ audioChunks' = IF ~isEnabled THEN audioChunks
                    ELSE Append(audioChunks, int16Data(burst))
    /\ lastOp' = [op |-> "onaudioprocess"]
    /\ UNCHANGED <<isEnabled, activeVideo, pageVideos, listening, audioProcessor,
                   orphanProcessor, websocket, sockets, reconnects, subtitleOverlay,
                   displayed, sendInterval, timers, currentChunkDuration,
                   lagAccumulator, apiMode, inflight>>

AudioProcess == \E burst \in Bursts : onaudioprocess(burst)

(***************************************************************************)
(* The merge of sendAudioChunks, content.js:626-634:                       *)
(*   totalLength = audioChunks.reduce((sum, chunk) => sum + chunk.length)  *)
(*   mergedData = new Int16Array(totalLength); offset = 0                  *)
(*   forEach chunk: mergedData.set(chunk, offset); offset += chunk.length  *)
(***************************************************************************)
RECURSIVE totalLength(_)
totalLength(chunks) ==
    IF chunks = <<>> THEN 0 ELSE Len(Head(chunks)) + totalLength(Tail(chunks))

\* new Int16Array(n): n zeroes
Int16Array(n) == [i \in 1..n |-> 0]

\* every chunk is written at the front of the array
typedArraySet_AtFront(arr, chunk, offset) ==
    [i \in 1..Len(arr) |-> IF i <= Len(chunk) THEN chunk[i] ELSE arr[i]]

\* TypedArray.prototype.set(chunk, offset)
typedArraySet(arr, chunk, offset) ==
    [i \in 1..Len(arr) |->
        IF i > offset /\ i <= offset + Len(chunk) THEN chunk[i - offset] ELSE arr[i]]

\* the forEach from the k-th chunk on
RECURSIVE mergeFrom(_, _, _, _)
mergeFrom(arr, chunks, k, offset) ==
    IF k > Len(chunks) THEN arr
    ELSE mergeFrom(typedArraySet(arr, chunks[k], offset), chunks, k + 1,
                   offset + Len(chunks[k]))

mergedData(chunks) == mergeFrom(Int16Array(totalLength(chunks)), chunks, 1, 0)

(***************************************************************************)
(* The interval callback, content.js:598-607 and 723-731, for the timer t, *)
(* with sendAudioChunks (619-650), the synchronous part of sendToGroqAPI   *)
(* (655-676) and sendToLocalBackend (737-753).  now is Date.now(),         *)
(* videoTime is activeVideo.currentTime.                                   *)
(***************************************************************************)
\* the callback records by how much the flushed chunk was late
intervalCallback_Accumulates(now, videoTime, wallAge) ==
    LET ready == /\ audioChunks # <<>>
                 /\ (apiMode = "groq" \/ readyState(websocket) = "open")
        flush == ready /\ activeVideo # 0
        skip == flush /\ apiMode = "groq" /\ tooFarBehind(now, videoTime)
        toGroq == flush /\ apiMode = "groq" /\ ~skip
        toLocal == flush /\ apiMode # "groq" /\ readyState(websocket) = "open"
    IN /\ DOMAIN timers # {}
       /\ toGroq => Len(inflight) < MaxInflight
       /\ audioChunks' = IF flush THEN <<>> ELSE audioChunks
       /\ lagAccumulator' = IF skip THEN 0
                          ELSE IF flush THEN Max(0, wallAge - currentChunkDuration)
                               ELSE lagAccumulator
       /\ inflight' = IF toGroq
                      THEN Append(inflight, [vt |-> videoTime, stale |-> FALSE])
                      ELSE inflight
       /\ lastOp' = IF flush
                    THEN [op |-> "tick", flushed |-> TRUE,
                          behind |-> now - videoTime > MAX_LAG_MS \div 1000,
                          wallAge |-> wallAge,
                          sent |-> toGroq \/ toLocal,
                          audio |-> IF toGroq \/ toLocal
                                    THEN mergedData(audioChunks) ELSE <<>>]
                    ELSE [op |-> "tick", flushed |-> FALSE, behind |-> FALSE,
                          wallAge |-> 0, sent |-> FALSE, audio |-> <<>>]
       /\ UNCHANGED <<isEnabled, activeVideo, pageVideos, listening, audioProcessor,
                      orphanProcessor, websocket, sockets, reconnects, subtitleOverlay,
                      displayed, sendInterval, timers, currentChunkDuration, apiMode>>

intervalCallback(now, videoTime, wallAge) ==
    LET ready == /\ audioChunks # <<>>
                 /\ (apiMode = "groq" \/ readyState(websocket) = "open")
        flush == ready /\ activeVideo # 0
        skip == flush /\ apiMode = "groq" /\ tooFarBehind(now, videoTime)
        toGroq == flush /\ apiMode = "groq" /\ ~skip
        toLocal == flush /\ apiMode # "groq" /\ readyState(websocket) = "open"
    IN /\ DOMAIN timers # {}
       /\ toGroq => Len(inflight) < MaxInflight
       /\ audioChunks' = IF flush THEN <<>> ELSE audioChunks
       /\ lagAccumulator' = IF skip THEN 0 ELSE lagAccumulator
       /\ inflight' = IF toGroq
                      THEN Append(inflight, [vt |-> videoTime, stale |-> FALSE])
                      ELSE inflight
       /\ lastOp' = IF flush
                    THEN [op |-> "tick", flushed |-> TRUE,
                          behind |-> now - videoTime > MAX_LAG_MS \div 1000,
                          wallAge |-> wallAge,
                          sent |-> toGroq \/ toLocal,
                          audio |-> IF toGroq \/ toLocal
                                    THEN mergedData(audioChunks) ELSE <<>>]
                    ELSE [op |-> "tick", flushed |-> FALSE, behind |-> FALSE,
                          wallAge |-> 0, sent |-> FALSE, audio |-> <<>>]
       /\ UNCHANGED <<isEnabled, activeVideo, pageVideos, listening, audioProcessor,
                      orphanProcessor, websocket, sockets, reconnects, subtitleOverlay,
                      displayed, sendInterval, timers, currentChunkDuration, apiMode>>

\* the callback reads its inputs only when it flushes
WouldFlush ==
    /\ audioChunks # <<>>
    /\ (apiMode = "groq" \/ readyState(websocket) = "open")
    /\ activeVideo # 0

TickInputs(times) ==
    IF WouldFlush THEN WallClockSecs \X times \X WallAges
    ELSE {<<NowEpoch, 0, 0>>}

TimerTick == \E in \in TickInputs(VideoTimes) : intervalCallback(in[1], in[2], in[3])

(***************************************************************************)
(* The rest of sendToGroqAPI after `await chrome.runtime.sendMessage`,     *)
(* content.js:678-693, for the i-th request in flight.  resp is the        *)
(* worker's answer: a text, an empty text, {error} (part_002:64-68), or a  *)
(* rejected sendMessage ("throw"); p is Date.now() - startTime.            *)
(***************************************************************************)
groqCompletion(i, resp, p) ==
    LET d == inflight[i]
        newD == adaptChunkSize(currentChunkDuration, p)
        changed == resp # "throw" /\ newD # currentChunkDuration
        r == restartSendInterval(timers, sendInterval, newD)
        show == resp = "text" /\ subtitleOverlay
    IN /\ i \in 1..Len(inflight)
       /\ changed => RestartFits(timers, sendInterval)
       /\ inflight' = RemoveAt(inflight, i)
       /\ currentChunkDuration' = IF changed THEN newD ELSE currentChunkDuration
       /\ timers' = IF changed THEN r.timers ELSE timers
       /\ sendInterval' = IF changed THEN r.sendInterval ELSE sendInterval
       /\ displayed' = IF show THEN d.vt ELSE displayed
       /\ lastOp' = [op |-> "completion"]
       /\ UNCHANGED <<isEnabled, activeVideo, pageVideos, listening, audioProcessor,
                      orphanProcessor, websocket, sockets, reconnects, audioChunks,
                      subtitleOverlay, lagAccumulator, apiMode>>

Completion ==
    \E i \in 1..Len(inflight), resp \in Responses :
        \E p \in (IF resp = "throw" THEN {0} ELSE ProcTimes) :
            groqCompletion(i, resp, p)

(***************************************************************************)
(* The 'seeking' listener, content.js:424-430, on a video that             *)
(* setupVideoEventListeners has visited.                                   *)
(***************************************************************************)
onSeeking(v) ==
    /\ v \in listening
    /\ audioChunks' = <<>>
    /\ displayed' = IF subtitleOverlay THEN 0 ELSE displayed
    /\ lastOp' = [op |-> "seeking"]
    /\ UNCHANGED <<isEnabled, activeVideo, pageVideos, listening, audioProcessor,
                   orphanProcessor, websocket, sockets, reconnects, subtitleOverlay,
                   sendInterval, timers, currentChunkDuration, lagAccumulator, apiMode, inflight>>

Seeking == \E v \in Videos : onSeeking(v)

(***************************************************************************)
(* The 'ratechange' listener, content.js:442-444, on a video that          *)
(* setupVideoEventListeners has visited, with handlePlaybackRateChange     *)
(* (453-464): rate is activeVideo.playbackRate in tenths; the handler      *)
(* shows a notification and does nothing else.                             *)
(***************************************************************************)
handlePlaybackRateChange(rate) ==
    IF rate > 20 THEN "tooHigh"
    ELSE IF rate > 15 THEN "reduced"
         ELSE IF rate < 5 THEN "slower" ELSE "none"

onRateChange(v, rate) ==
    /\ v \in listening
    /\ activeVideo # 0
    /\ lastOp' = [op |-> "ratechange", rate |-> rate,
                  notification |-> handlePlaybackRateChange(rate)]
    /\ UNCHANGED <<isEnabled, activeVideo, pageVideos, listening, audioProcessor,
                   orphanProcessor, websocket, sockets, reconnects, audioChunks,
                   subtitleOverlay, displayed, sendInterval, timers,
                   currentChunkDuration, lagAccumulator, apiMode, inflight>>

RateChange == \E v \in Videos, rate \in PlaybackRates : onRateChange(v, rate)

(***************************************************************************)
(* The MutationObserver's 'src' branch, content.js:294-304, with           *)
(* resetTranscriptionState, content.js:356-366.                            *)
(***************************************************************************)
onSrcChange(v) ==
    LET reset == v = activeVideo /\ isEnabled
    IN /\ v \in pageVideos
       /\ audioChunks' = IF reset THEN <<>> ELSE audioChunks
       /\ lagAccumulator' = IF reset THEN 0 ELSE lagAccumulator
       /\ currentChunkDuration' = IF reset THEN AUDIO_CHUNK_DURATION_MS
                                  ELSE currentChunkDuration
       /\ displayed' = IF reset /\ subtitleOverlay THEN 0 ELSE displayed
       /\ lastOp' = [op |-> "srcChange"]
       /\ UNCHANGED <<isEnabled, activeVideo, pageVideos, listening, audioProcessor,
                      orphanProcessor, websocket, sockets, reconnects, subtitleOverlay,
                      sendInterval, timers, apiMode, inflight>>

SrcChange == \E v \in Videos : onSrcChange(v)

(***************************************************************************)
(* A video element is added to the page: the MutationObserver's childList  *)
(* branch, content.js:280-292, handleNewVideoDetected (319-330) and        *)
(* switchToVideo (335-351).                                                *)
(***************************************************************************)
handleNewVideoDetected(v, ok) ==
    LET videos == pageVideos \cup {v}
        switch == isEnabled /\ Cardinality(videos) = 1
        cap == startAudioCapture(v, FALSE, orphanProcessor, timers, sendInterval, ok)
    IN /\ v \notin pageVideos
       /\ pageVideos' = videos
       /\ switch /\ ok => StartFits(timers)
       /\ IF switch
          THEN /\ audioChunks' = <<>>
               /\ lagAccumulator' = 0
               /\ currentChunkDuration' = AUDIO_CHUNK_DURATION_MS
               /\ displayed' = 0
               /\ activeVideo' = v
               /\ listening' = listening \cup {v}
               /\ audioProcessor' = cap.audioProcessor
               /\ orphanProcessor' = cap.orphanProcessor
               /\ timers' = cap.timers
               /\ sendInterval' = cap.sendInterval
          ELSE UNCHANGED <<audioChunks, lagAccumulator, currentChunkDuration, displayed,
                           activeVideo, listening, audioProcessor, orphanProcessor,
                           timers, sendInterval>>
       /\ lastOp' = [op |-> "newVideo"]
       /\ UNCHANGED <<isEnabled, websocket, sockets, reconnects, subtitleOverlay,
                      apiMode, inflight>>

AddVideo == \E v \in Videos, ok \in BOOLEAN : handleNewVideoDetected(v, ok)

\* The page removes a video element; no handler of the content script runs.
RemoveVideo ==
    \E v \in pageVideos :
        /\ pageVideos' = pageVideos \ {v}
        /\ lastOp' = [op |-> "removeVideo"]
        /\ UNCHANGED <<isEnabled, activeVideo, listening, audioProcessor,
                       orphanProcessor, websocket, sockets, reconnects, audioChunks,
                       subtitleOverlay, displayed, sendInterval, timers,
                       currentChunkDuration, lagAccumulator,
                       apiMode, inflight>>

(***************************************************************************)
(* handleMessage 'selectVideo', content.js:126-129, selectVideoByIndex     *)
(* (371-377)                                                               *)
(***************************************************************************)
selectVideoByIndex(v) ==
    /\ v \in pageVideos
    /\ activeVideo' = v
    /\ lastOp' = [op |-> "selectVideo"]
    /\ UNCHANGED <<isEnabled, pageVideos, listening, audioProcessor, orphanProcessor,
                   websocket, sockets, reconnects, audioChunks, subtitleOverlay,
                   displayed, sendInterval, timers, currentChunkDuration,
                   lagAccumulator, apiMode, inflight>>

SelectVideo == \E v \in Videos : selectVideoByIndex(v)

(***************************************************************************)
(* websocket.onopen, content.js:503-506.  Resolving the promise resumes    *)
(* the enableSubtitles that awaits this socket (content.js:407-414) in the *)
(* same task.                                                              *)
(***************************************************************************)
onopen(id, ok) ==
    LET resume == sockets[id].awaited
        cap == startAudioCapture(activeVideo, audioProcessor, orphanProcessor,
                                 timers, sendInterval, ok)
    IN /\ id \in DOMAIN sockets
       /\ sockets[id].state = "connecting"
       /\ resume /\ ok /\ activeVideo # 0 => StartFits(timers)
       /\ sockets' = [sockets EXCEPT ![id] = [state |-> "open", awaited |-> FALSE]]
       /\ audioProcessor' = IF resume THEN cap.audioProcessor ELSE audioProcessor
       /\ orphanProcessor' = IF resume THEN cap.orphanProcessor ELSE orphanProcessor
       /\ timers' = IF resume THEN cap.timers ELSE timers
       /\ sendInterval' = IF resume THEN cap.sendInterval ELSE sendInterval
       /\ subtitleOverlay' = IF resume THEN TRUE ELSE subtitleOverlay
       /\ lastOp' = [op |-> "onopen"]
       /\ UNCHANGED <<isEnabled, activeVideo, pageVideos, listening, websocket,
                      reconnects, audioChunks, displayed, currentChunkDuration,
                      lagAccumulator, apiMode, inflight>>

SocketOpen == \E id \in DOMAIN sockets, ok \in BOOLEAN : onopen(id, ok)

(***************************************************************************)
(* websocket.onmessage of an open socket, content.js:508-511, with         *)
(* handleTranscription (802-819) and displaySubtitle (867-909).  resp is   *)
(* what the backend sent: a text, an empty text, {error}, or a frame that  *)
(* JSON.parse rejects ("throw"); vt is the videoTime of the chunk it       *)
(* answers; p is the time since that chunk was sent, which the handler     *)
(* does not measure.                                                       *)
(***************************************************************************)
onmessage(id, resp, vt, p) ==
    LET show == resp = "text" /\ subtitleOverlay
    IN /\ id \in DOMAIN sockets
       /\ sockets[id].state = "open"
       /\ displayed' = IF show THEN vt ELSE displayed
       /\ lastOp' = [op |-> "onmessage", p |-> p]
       /\ UNCHANGED <<isEnabled, activeVideo, pageVideos, listening, audioProcessor,
                      orphanProcessor, websocket, sockets, reconnects, audioChunks,
                      subtitleOverlay, sendInterval, timers, currentChunkDuration,
                      lagAccumulator, apiMode, inflight>>

SocketMessage ==
    \E id \in DOMAIN sockets, resp \in Responses, p \in ProcTimes :
        onmessage(id, resp, NowEpoch + 3, p)

(***************************************************************************)
(* The connection of socket id ends: a refused or failed connect (onerror, *)
(* content.js:513-517, rejects the promise and the awaiting                *)
(* enableSubtitles stops there), a connection dropped by the peer, or the  *)
(* end of a close() handshake; then websocket.onclose, content.js:519-529.*)
(***************************************************************************)
\* onclose without the setTimeout of the reconnect
onclose_NoReconnect(id) ==
    /\ id \in DOMAIN sockets
    /\ sockets' = dropSocket(sockets, id)
    /\ lastOp' = [op |-> "onclose"]
    /\ UNCHANGED <<isEnabled, activeVideo, pageVideos, listening, audioProcessor,
                   orphanProcessor, websocket, reconnects, audioChunks, subtitleOverlay,
                   displayed, sendInterval, timers, currentChunkDuration,
                   lagAccumulator, apiMode, inflight>>

onclose(id) ==
    /\ id \in DOMAIN sockets
    /\ isEnabled => reconnects < MaxReconnects
    /\ sockets' = dropSocket(sockets, id)
    /\ reconnects' = IF isEnabled THEN reconnects + 1 ELSE reconnects
    /\ lastOp' = [op |-> "onclose"]
    /\ UNCHANGED <<isEnabled, activeVideo, pageVideos, listening, audioProcessor,
                   orphanProcessor, websocket, audioChunks, subtitleOverlay, displayed,
                   sendInterval, timers, currentChunkDuration, lagAccumulator, apiMode, inflight>>

SocketClose == \E id \in DOMAIN sockets : onclose(id)

(***************************************************************************)
(* The reconnect timeout of onclose fires, content.js:523-527, with        *)
(* connectWebSocket, content.js:497-531.                                   *)
(***************************************************************************)
\* the timeout callback without its isEnabled test
reconnectTimeout_NoCheck ==
    /\ reconnects > 0
    /\ reconnects' = reconnects - 1
    /\ SocketFits
    /\ websocket' = FreeSocket
    /\ sockets' = newSocket(sockets, FreeSocket, FALSE)
    /\ lastOp' = [op |-> "reconnect"]
    /\ UNCHANGED <<isEnabled, activeVideo, pageVideos, listening, audioProcessor,
                   orphanProcessor, audioChunks, subtitleOverlay, displayed,
                   sendInterval, timers, currentChunkDuration, lagAccumulator,
                   apiMode, inflight>>

reconnectTimeout ==
    /\ reconnects > 0
    /\ reconnects' = reconnects - 1
    /\ isEnabled => SocketFits
    /\ websocket' = IF isEnabled THEN FreeSocket ELSE websocket
    /\ sockets' = IF isEnabled THEN newSocket(sockets, FreeSocket, FALSE) ELSE sockets
    /\ lastOp' = [op |-> "reconnect"]
    /\ UNCHANGED <<isEnabled, activeVideo, pageVideos, listening, audioProcessor,
                   orphanProcessor, audioChunks, subtitleOverlay, displayed,
                   sendInterval, timers, currentChunkDuration, lagAccumulator, apiMode, inflight>>

Reconnect == reconnectTimeout

(***************************************************************************)
(* adaptChunkSize called on its own, content.js:699-714: the new duration  *)
(* and, when it differs, restartSendInterval.                              *)
(***************************************************************************)
adaptChunkSizeCall(p) ==
    LET newD == adaptChunkSize(currentChunkDuration, p)
        changed == newD # currentChunkDuration
        r == restartSendInterval(timers, sendInterval, newD)
    IN /\ changed => RestartFits(timers, sendInterval)
       /\ currentChunkDuration' = newD
       /\ timers' = IF changed THEN r.timers ELSE timers
       /\ sendInterval' = IF changed THEN r.sendInterval ELSE sendInterval
       /\ lastOp' = [op |-> "adapt", D |-> currentChunkDuration, p |-> p]
       /\ UNCHANGED <<isEnabled, activeVideo, pageVideos, listening, audioProcessor,
                      orphanProcessor, websocket, sockets, reconnects, audioChunks,
                      subtitleOverlay, displayed, lagAccumulator, apiMode, inflight>>

Adapt == \E p \in AdaptTimes : adaptChunkSizeCall(p)

\* the interval callback on a page whose video is an ordinary file
TimerTickFile == \E in \in TickInputs({10}) : intervalCallback(in[1], in[2], in[3])

\* capture of bursts whose content is not told apart
AudioProcessOne == onaudioprocess(<<1>>)

(***************************************************************************)
(* Spec: every handler, every input.                                       *)
(***************************************************************************)
Next ==
    \/ Enable
    \/ Disable
    \/ UpdateSettings
    \/ AudioProcess
    \/ TimerTick
    \/ Completion
    \/ Seeking
    \/ RateChange
    \/ SrcChange
    \/ AddVideo
    \/ RemoveVideo
    \/ SelectVideo
    \/ SocketOpen
    \/ SocketMessage
    \/ SocketClose
    \/ Reconnect

Spec == Init /\ [][Next]_vars

(***************************************************************************)
(* SpecRR: a session in RequestResponse (Groq) mode: the settings keep     *)
(* apiMode = 'groq', so no WebSocket is ever created.                      *)
(***************************************************************************)
InitRR == Init /\ apiMode = "groq"

NextRR ==
    \/ EnableGroq
    \/ Disable
    \/ AudioProcessOne
    \/ TimerTick
    \/ Completion
    \/ Seeking
    \/ SrcChange
    \/ AddVideo
    \/ RemoveVideo

SpecRR == InitRR /\ [][NextRR]_vars

(***************************************************************************)
(* SpecWS: sessions in either mode on a page whose video is an ordinary    *)
(* file, with the WebSocket's life cycle.  On such a page sendToGroqAPI    *)
(* skips every chunk, so no request is ever in flight.                     *)
(***************************************************************************)
NextWS ==
    \/ Enable
    \/ Disable
    \/ UpdateSettings
    \/ AudioProcessOne
    \/ TimerTickFile
    \/ Seeking
    \/ SrcChange
    \/ AddVideo
    \/ RemoveVideo
    \/ SocketOpen
    \/ SocketClose
    \/ Reconnect

SpecWS == Init /\ [][NextWS]_vars

(***************************************************************************)
(* SpecAdapt: adaptChunkSize as a function, from every duration it can     *)
(* hold, on every processing time of AdaptTimes.                           *)
(***************************************************************************)
InitAdapt ==
    /\ isEnabled = FALSE
    /\ pageVideos = {}
    /\ activeVideo = 0
    /\ listening = {}
    /\ audioProcessor = FALSE
    /\ orphanProcessor = FALSE
    /\ websocket = 0
    /\ sockets = [i \in {} |-> 0]
    /\ reconnects = 0
    /\ audioChunks = <<>>
    /\ subtitleOverlay = FALSE
    /\ displayed = 0
    /\ sendInterval = 0
    /\ timers = [i \in {} |-> 0]
    /\ currentChunkDuration \in Durations
    /\ lagAccumulator = 0
    /\ apiMode = "groq"
    /\ inflight = <<>>
    /\ lastOp = [op |-> "init"]

NextAdapt == Adapt

SpecAdapt == InitAdapt /\ [][NextAdapt]_vars

(***************************************************************************)
(* SpecOrder: a Groq session on a live stream played forward: the position *)
(* read at a flush is never before the position of an earlier flush, so    *)
(* requests are sent in the order of their videoTime.  The worker answers  *)
(* them in any order.                                                      *)
(***************************************************************************)
LiveTimes == {NowEpoch + 3, NowEpoch + 6}

TimerTickLive ==
    \E in \in TickInputs(LiveTimes) :
        /\ WouldFlush => /\ displayed <= in[2]
                         /\ \A j \in 1..Len(inflight) : inflight[j].vt <= in[2]
        /\ intervalCallback(in[1], in[2], in[3])

NextOrder ==
    \/ EnableGroq
    \/ Disable
    \/ AudioProcessOne
    \/ TimerTickLive
    \/ Completion

SpecOrder == InitRR /\ [][NextOrder]_vars

(***************************************************************************)
(* The background worker, part_002:64-133.  A request in flight that the   *)
(* worker has picked up carries the worker's view of it:                   *)
(*   phase   "fetching" while fetch() is pending, "done" once sendResponse *)
(*           was called                                                    *)
(*   fetches the number of fetch() calls made for it                       *)
(*   status  what ended it                                                 *)
(*   result  what sendResponse carried: a text, an empty text or {error}   *)
(***************************************************************************)
FetchOutcomes == {"ok", "okEmpty", "badJson", "429", "500", "network"}

phaseOf(r) == IF "phase" \in DOMAIN r THEN r.phase ELSE "sent"

\* onMessage 'transcribe' and handleGroqTranscription up to `await fetch`,
\* part_002:64-68 and 81-110, for the request r
startTranscription(r, hasKey) ==
    IF ~hasKey
    THEN [vt |-> r.vt, stale |-> r.stale, phase |-> "done", fetches |-> 0,
          status |-> "nokey", result |-> "error"]
    ELSE [vt |-> r.vt, stale |-> r.stale, phase |-> "fetching", fetches |-> 1,
          status |-> "none", result |-> "none"]

\* the fetch of a rate-limited request is issued again, without a bound
afterFetch_RetryForever(r, outcome) ==
    IF outcome = "429"
    THEN [r EXCEPT !.fetches = r.fetches + 1, !.status = "429"]
    ELSE [r EXCEPT !.phase = "done", !.status = outcome,
                   !.result = IF outcome = "ok" THEN "text"
                              ELSE IF outcome = "okEmpty" THEN "empty" ELSE "error"]

\* the fetch of a request that failed with a server error is issued again
afterFetch_RetryErrors(r, outcome) ==
    IF outcome = "500" /\ r.fetches < 2
    THEN [r EXCEPT !.fetches = r.fetches + 1]
    ELSE [r EXCEPT !.phase = "done", !.status = outcome,
                   !.result = IF outcome = "ok" THEN "text"
                              ELSE IF outcome = "okEmpty" THEN "empty" ELSE "error"]

\* handleGroqTranscription after `await fetch`, part_002:104-132, and the
\* .then / .catch of the message listener, part_002:66-68: a rejected
\* fetch, a response that is not ok and a body that is not JSON all throw
\* and are answered with {error}; nothing is fetched again
afterFetch(r, outcome) ==
    [r EXCEPT !.phase = "done", !.status = outcome,
              !.result = IF outcome = "ok" THEN "text"
                         ELSE IF outcome = "okEmpty" THEN "empty" ELSE "error"]

onTranscribe(i, hasKey) ==
    /\ i \in 1..Len(inflight)
    /\ phaseOf(inflight[i]) = "sent"
    /\ inflight' = [inflight EXCEPT ![i] = startTranscription(inflight[i], hasKey)]
    /\ lastOp' = [op |-> "transcribe"]
    /\ UNCHANGED <<isEnabled, activeVideo, pageVideos, listening, audioProcessor,
                   orphanProcessor, websocket, sockets, reconnects, audioChunks,
                   subtitleOverlay, displayed, sendInterval, timers,
                   currentChunkDuration, lagAccumulator, apiMode>>

Transcribe == \E i \in 1..Len(inflight), hasKey \in BOOLEAN : onTranscribe(i, hasKey)

onFetchSettled(i, outcome) ==
    /\ i \in 1..Len(inflight)
    /\ phaseOf(inflight[i]) = "fetching"
    /\ inflight' = [inflight EXCEPT ![i] = afterFetch(inflight[i], outcome)]
    /\ lastOp' = [op |-> "fetchSettled"]
    /\ UNCHANGED <<isEnabled, activeVideo, pageVideos, listening, audioProcessor,
                   orphanProcessor, websocket, sockets, reconnects, audioChunks,
                   subtitleOverlay, displayed, sendInterval, timers,
                   currentChunkDuration, lagAccumulator, apiMode>>

FetchSettled ==
    \E i \in 1..Len(inflight), outcome \in FetchOutcomes : onFetchSettled(i, outcome)

\* the worker's sendResponse reaches the content script: the rest of
\* sendToGroqAPI runs on the worker's result
onWorkerResponse(i, p) ==
    /\ i \in 1..Len(inflight)
    /\ phaseOf(inflight[i]) = "done"
    /\ groqCompletion(i, inflight[i].result, p)

\* a backend whose processing time stays between the two thresholds
SteadyProcTimes == {2000}

WorkerResponse ==
    \E i \in 1..Len(inflight), p \in SteadyProcTimes : onWorkerResponse(i, p)

(***************************************************************************)
(* SpecBG: a Groq session together with the background worker.             *)
(***************************************************************************)
NextBG ==
    \/ EnableGroq
    \/ Disable
    \/ AudioProcessOne
    \/ TimerTick
    \/ Transcribe
    \/ FetchSettled
    \/ WorkerResponse

SpecBG == InitRR /\ [][NextBG]_vars

(***************************************************************************)
(* SpecErr: sessions that keep the mode they were enabled in, on a live    *)
(* stream, where every request ends in a failure: the worker answers       *)
(* {error} (HTTP 429 or 5xx from Groq, a body that is not JSON, a missing  *)
(* key: part_002:84-86, 112-115, 66-68) or sendMessage is rejected.        *)
(***************************************************************************)
EnableKeep == \E ok \in BOOLEAN : enableSubtitles("keep", ok)

TimerTickStream ==
    \E in \in TickInputs({NowEpoch + 3}) : intervalCallback(in[1], in[2], in[3])

FailedCompletion ==
    \E i \in 1..Len(inflight) :
        \/ \E p \in ProcTimes : groqCompletion(i, "error", p)
        \/ groqCompletion(i, "throw", 0)

NextErr ==
    \/ EnableKeep
    \/ Disable
    \/ AudioProcessOne
    \/ TimerTickStream
    \/ FailedCompletion
    \/ SocketOpen
    \/ SocketClose
    \/ Reconnect
    \/ AddVideo
    \/ RemoveVideo

SpecErr == Init /\ [][NextErr]_vars

(***************************************************************************)
(* SpecDrain: capture of bursts that differ in length and content, and the *)
(* flushes that merge them, in either mode.                                *)
(***************************************************************************)
NextDrain ==
    \/ EnableKeep
    \/ Disable
    \/ AudioProcess
    \/ TimerTickStream
    \/ FailedCompletion
    \/ Seeking
    \/ SocketOpen
    \/ SocketClose
    \/ Reconnect

SpecDrain == Init /\ [][NextDrain]_vars

(***************************************************************************)
(* SpecMsg: sessions of either mode on a live stream, with the answers of  *)
(* both backends: the worker's response in Groq mode, the frames of the    *)
(* WebSocket in local mode.                                                *)
(***************************************************************************)
NextMsg ==
    \/ EnableKeep
    \/ Disable
    \/ AudioProcessOne
    \/ TimerTickStream
    \/ Completion
    \/ SocketOpen
    \/ SocketMessage
    \/ SocketClose
    \/ Reconnect

SpecMsg == Init /\ [][NextMsg]_vars

(***************************************************************************)
(* SpecRate: a Groq session on a live stream whose playback rate the user  *)
(* changes.                                                                *)
(***************************************************************************)
NextRate ==
    \/ EnableGroq
    \/ Disable
    \/ AudioProcessOne
    \/ TimerTickStream
    \/ Completion
    \/ RateChange

SpecRate == InitRR /\ [][NextRate]_vars

(***************************************************************************)
(* SpecSettings: sessions on a live stream whose settings are replaced     *)
(* while they run; the worker answers every request with a text after a    *)
(* steady processing time.                                                 *)
(***************************************************************************)
SteadyCompletion ==
    \E i \in 1..Len(inflight), p \in SteadyProcTimes : groqCompletion(i, "text", p)

NextSettings ==
    \/ EnableKeep
    \/ Disable
    \/ UpdateSettings
    \/ AudioProcessOne
    \/ TimerTickStream
    \/ SteadyCompletion
    \/ SocketOpen
    \/ SocketClose
    \/ Reconnect

SpecSettings == Init /\ [][NextSettings]_vars

(***************************************************************************)
(* The way of a chunk from sendAudioChunks to the body of the worker's     *)
(* fetch: arrayBufferToBase64 (content.js:767-774) on mergedData.buffer,   *)
(* then base64ToBlob and createWavFile (part_002:138-195).  Buffers are    *)
(* sequences of bytes 0..255; a base64 string is the sequence of its       *)
(* characters' 6-bit values, with 64 for the padding '='.                  *)
(***************************************************************************)
WAV_SAMPLE_RATE == 16000

\* the bytes of an Int16Array's buffer, as new Uint8Array(buffer) reads them
\* (two's complement, low byte first)
Uint8Array(int16s) ==
    [k \in 1..2 * Len(int16s) |->
        LET u == int16s[(k + 1) \div 2] % 65536
        IN IF k % 2 = 1 THEN u % 256 ELSE u \div 256]

\* btoa of the binary string built from the bytes
RECURSIVE btoa(_)
btoa(bytes) ==
    IF bytes = <<>> THEN <<>>
    ELSE LET n == Len(bytes)
             b1 == bytes[1]
             b2 == IF n >= 2 THEN bytes[2] ELSE 0
             b3 == IF n >= 3 THEN bytes[3] ELSE 0
             c1 == b1 \div 4
             c2 == (b1 % 4) * 16 + (b2 \div 16)
             c3 == (b2 % 16) * 4 + (b3 \div 64)
             c4 == b3 % 64
         IN IF n = 1 THEN <<c1, c2, 64, 64>>
            ELSE IF n = 2 THEN <<c1, c2, c3, 64>>
                 ELSE <<c1, c2, c3, c4>> \o btoa(SubSeq(bytes, 4, n))

arrayBufferToBase64(int16s) == btoa(Uint8Array(int16s))

\* atob and the charCodeAt loop of base64ToBlob, part_002:140-144
RECURSIVE atob(_)
atob(chars) ==
    IF chars = <<>> THEN <<>>
    ELSE LET c1 == chars[1]
             c2 == chars[2]
             c3 == chars[3]
             c4 == chars[4]
             b1 == c1 * 4 + (c2 \div 16)
             b2 == (c2 % 16) * 16 + ((c3 % 64) \div 4)
             b3 == (c3 % 4) * 64 + (c4 % 64)
         IN IF c3 = 64 THEN <<b1>>
            ELSE IF c4 = 64 THEN <<b1, b2>>
                 ELSE <<b1, b2, b3>> \o atob(SubSeq(chars, 5, Len(chars)))

\* new Int16Array(bytes.buffer), part_002:147
Int16ArrayView(bytes) ==
    [i \in 1..Len(bytes) \div 2 |->
        LET u == bytes[2 * i - 1] + 256 * bytes[2 * i]
        IN IF u >= 32768 THEN u - 65536 ELSE u]

\* DataView.setUint32 / setUint16 / setInt16 with littleEndian = true
setUint32(v) ==
    <<v % 256, (v \div 256) % 256, (v \div 65536) % 256, (v \div 16777216) % 256>>

setUint16(v) == <<v % 256, (v \div 256) % 256>>

\* the sample is written high byte first
setInt16_BigEndian(v) == <<((v % 65536) \div 256) % 256, (v % 65536) % 256>>

setInt16(v) == <<(v % 65536) % 256, ((v % 65536) \div 256) % 256>>

\* writeString, part_002:200-204: the char codes of 'RIFF', 'WAVE', 'fmt '
\* and 'data'
writeString(string) ==
    CASE string = "RIFF" -> <<82, 73, 70, 70>>
      [] string = "WAVE" -> <<87, 65, 86, 69>>
      [] string = "fmt " -> <<102, 109, 116, 32>>
      [] string = "data" -> <<100, 97, 116, 97>>

\* the loop that writes the samples, part_002:190-192
RECURSIVE writePcm(_)
writePcm(pcmData) ==
    IF pcmData = <<>> THEN <<>>
    ELSE setInt16(Head(pcmData)) \o writePcm(Tail(pcmData))

\* createWavFile, part_002:158-195
createWavFile(pcmData, sampleRate) ==
    LET numChannels == 1
        bitsPerSample == 16
        byteRate == sampleRate * numChannels * (bitsPerSample \div 8)
        blockAlign == numChannels * (bitsPerSample \div 8)
        dataSize == Len(pcmData) * (bitsPerSample \div 8)
    IN writeString("RIFF") \o setUint32(36 + dataSize) \o writeString("WAVE")
       \o writeString("fmt ") \o setUint32(16) \o setUint16(1)
       \o setUint16(numChannels) \o setUint32(sampleRate) \o setUint32(byteRate)
       \o setUint16(blockAlign) \o setUint16(bitsPerSample)
       \o writeString("data") \o setUint32(dataSize)
       \o writePcm(pcmData)

\* base64ToBlob, part_002:138-153
base64ToBlob(base64) == createWavFile(Int16ArrayView(atob(base64)), WAV_SAMPLE_RATE)

\* sendAudioChunks up to the base64 string (content.js:626-640) and the
\* worker's conversion of it (part_002:88-90), applied to the buffer
wavOfChunk ==
    /\ audioChunks # <<>>
    /\ lastOp' = [op |-> "wav", pcm |-> mergedData(audioChunks),
                  file |-> base64ToBlob(arrayBufferToBase64(mergedData(audioChunks)))]
    /\ UNCHANGED <<isEnabled, activeVideo, pageVideos, listening, audioProcessor,
                   orphanProcessor, websocket, sockets, reconnects, audioChunks,
                   subtitleOverlay, displayed, sendInterval, timers,
                   currentChunkDuration, lagAccumulator, apiMode, inflight>>

(***************************************************************************)
(* SpecWav: the conversion as a function, on the buffers of a running Groq *)
(* session that hold one or two bursts of one or two samples.              *)
(***************************************************************************)
WavSamples == {-32768, -256, -1, 0, 1, 255, 32767}

WavBursts == {<<a>> : a \in WavSamples} \cup {<<a, b>> : a, b \in WavSamples}

InitWav ==
    /\ isEnabled = TRUE
    /\ pageVideos = {1}
    /\ activeVideo = 1
    /\ listening = {1}
    /\ audioProcessor = TRUE
    /\ orphanProcessor = FALSE
    /\ websocket = 0
    /\ sockets = [i \in {} |-> 0]
    /\ reconnects = 0
    /\ audioChunks \in {<<c>> : c \in WavBursts}
                      \cup {<<c, d>> : c \in WavBursts, d \in {<<1>>, <<-32768, 32767>>}}
    /\ subtitleOverlay = TRUE
    /\ displayed = 0
    /\ sendInterval = 1
    /\ timers = <<AUDIO_CHUNK_DURATION_MS>>
    /\ currentChunkDuration = AUDIO_CHUNK_DURATION_MS
    /\ lagAccumulator = 0
    /\ apiMode = "groq"
    /\ inflight = <<>>
    /\ lastOp = [op |-> "init"]

NextWav == wavOfChunk

SpecWav == InitWav /\ [][NextWav]_vars

(***************************************************************************)
(* SpecLive: a Groq session on a live stream, with the scheduling of the   *)
(* flush interval.  A registered interval fires once its period has        *)
(* passed, unless restartSendInterval replaces it first: the callback is   *)
(* weakly fair in every behaviour in which the restarts come to an end.    *)
(* Nothing is assumed of behaviours in which the interval is restarted     *)
(* again and again, nor of the user, the page or the worker.               *)
(***************************************************************************)
NextLive ==
    \/ EnableGroq
    \/ Disable
    \/ AudioProcessOne
    \/ TimerTickStream
    \/ Completion

\* a completion whose adaptChunkSize changed the duration, so that
\* restartSendInterval ran (content.js:704-713)
IntervalRestarted == Completion /\ currentChunkDuration' # currentChunkDuration

SpecLive ==
    /\ InitRR
    /\ [][NextLive]_vars
    /\ ([]<><<IntervalRestarted>>_vars) \/ WF_vars(TimerTickStream)

(***************************************************************************)
(*                              Properties                                 *)
(***************************************************************************)

\* C1: in every reachable state, after any sequence of enable, disable,
\* seek, video change and completions of in-flight dispatches in any order,
\* currentChunkDuration is within [2000, 6000].
C1_DurationInRange ==
    /\ currentChunkDuration >= MIN_CHUNK_MS
    /\ currentChunkDuration <= MAX_CHUNK_MS

\* a completion has driven the duration to its cap
C1_Witness == lastOp.op = "completion" /\ currentChunkDuration = MAX_CHUNK_MS

\* C2: for every duration D in [2000, 6000] and processing time p,
\* adaptChunkSize(p) yields min(6000, D + 500) when p > 0.8 D and D < 6000,
\* else max(2000, D - 500) when p < 0.3 D and D > 2000, else D; D does not
\* change when 0.3 D <= p <= 0.8 D.
C2_AdaptFunction ==
    lastOp.op = "adapt" =>
        LET D == lastOp.D
            p == lastOp.p
            slow == 5 * p > 4 * D
            fast == 10 * p < 3 * D
            new == currentChunkDuration
        IN /\ slow /\ D < 6000 => new = Min(6000, D + 500)
           /\ ~(slow /\ D < 6000) /\ fast /\ D > 2000 => new = Max(2000, D - 500)
           /\ ~(slow /\ D < 6000) /\ ~(fast /\ D > 2000) => new = D
           /\ ~slow /\ ~fast => new = D

\* adaptChunkSize has run with p exactly at 0.8 D and left D alone
C2_Witness ==
    /\ lastOp.op = "adapt"
    /\ lastOp.D = 3000
    /\ lastOp.p = 2400
    /\ currentChunkDuration = 3000

\* C3: whenever a flush timer is running its period equals
\* currentChunkDuration; every operation that changes the duration also
\* reschedules the timer.
C3_TimerPeriodIsDuration ==
    \A t \in DOMAIN timers : timers[t] = currentChunkDuration

\* C4: when disableSubtitles ran while a RequestResponse dispatch was in
\* flight, the completion of that dispatch changes neither
\* currentChunkDuration nor the flush timers and delivers nothing.
C4_StaleCompletionIsNoOp ==
    [][(/\ lastOp'.op = "completion"
        /\ \E i \in 1..Len(inflight) :
              inflight[i].stale /\ inflight' = RemoveAt(inflight, i))
       => /\ currentChunkDuration' = currentChunkDuration
          /\ timers' = timers
          /\ sendInterval' = sendInterval
          /\ displayed' = displayed]_vars

\* C5: in RequestResponse mode a non-empty chunk flushed on schedule (its
\* wall-clock age since capture and the accumulated lag not above MAX_LAG)
\* is sent to the backend.
C5_OnScheduleChunkIsSent ==
    (/\ lastOp.op = "tick"
     /\ lastOp.flushed
     /\ apiMode = "groq"
     /\ lastOp.wallAge <= MAX_LAG_MS
     /\ lagAccumulator <= MAX_LAG_MS)
    => lastOp.sent

\* C6: at each flush of a non-empty chunk lagAccumulator is increased by
\* (chunkAge - currentChunkDuration), and reset to 0 when that exceeds
\* MAX_LAG.
C6_LagAccumulates ==
    [][(lastOp'.op = "tick" /\ lastOp'.flushed)
       => LET sum == lagAccumulator + (lastOp'.wallAge - currentChunkDuration)
          IN lagAccumulator' = IF sum > MAX_LAG_MS THEN 0 ELSE sum]_vars

C8_SkipInBothModes ==
    (/\ lastOp.op = "tick"
     /\ lastOp.flushed
     /\ lastOp.behind
     /\ lastOp.wallAge > MAX_LAG_MS)
    => ~lastOp.sent

\* C9: immediately after disableSubtitles isEnabled is false, no flush timer
\* runs, the buffer is empty, the Persistent connection is closed,
\* lagAccumulator is 0 and currentChunkDuration is the default 3000.
C9_DisableResetsSession ==
    lastOp.op = "disable" =>
        /\ ~isEnabled
        /\ sendInterval = 0
        /\ DOMAIN timers = {}
        /\ audioChunks = <<>>
        /\ websocket = 0
        /\ \A id \in DOMAIN sockets : sockets[id].state = "closing"
        /\ lagAccumulator = 0
        /\ currentChunkDuration = AUDIO_CHUNK_DURATION_MS

\* C10: after a seeking event on the active video of an Active session the
\* buffer is empty, nothing was dispatched, lagAccumulator is 0,
\* currentChunkDuration is the default 3000 and isEnabled is unchanged.
C10_SeekResetsState ==
    [][(lastOp'.op = "seeking" /\ isEnabled /\ activeVideo \in listening)
       => /\ audioChunks' = <<>>
          /\ inflight' = inflight
          /\ lagAccumulator' = 0
          /\ currentChunkDuration' = AUDIO_CHUNK_DURATION_MS
          /\ isEnabled' = isEnabled]_vars

\* C11: after a video change (switchToVideo for a newly detected video, or a
\* src change on the active video while enabled) the previous flush timer is
\* cancelled and the session state is reset: at most the one timer of the
\* new capture runs, at the default period, the buffer is empty,
\* lagAccumulator is 0 and currentChunkDuration is 3000.
C11_VideoChangeResets ==
    [][(/\ isEnabled
        /\ Cardinality(DOMAIN timers) <= 1
        /\ \/ \E v \in Videos, ok \in BOOLEAN :
                 pageVideos = {} /\ handleNewVideoDetected(v, ok)
           \/ \E v \in Videos : v = activeVideo /\ onSrcChange(v))
       => /\ Cardinality(DOMAIN timers') <= 1
          /\ \A t \in DOMAIN timers' : timers'[t] = AUDIO_CHUNK_DURATION_MS
          /\ audioChunks' = <<>>
          /\ lagAccumulator' = 0
          /\ currentChunkDuration' = AUDIO_CHUNK_DURATION_MS]_vars


\* C12: whenever the session is Active a periodic flush timer is running,
\* in either transport mode and whether or not the initial Persistent
\* connection attempt succeeds: when the connection attempt that
\* enableSubtitles awaits ends without opening, the session is still Active
\* and its flush timer runs.
C12_ActiveHasTimer ==
    [][(/\ isEnabled
        /\ \E id \in DOMAIN sockets :
              /\ sockets[id].awaited
              /\ sockets[id].state = "connecting"
              /\ onclose(id))
       => /\ isEnabled'
          /\ sendInterval' # 0
          /\ sendInterval' \in DOMAIN timers']_vars


\* C13: if audio capture cannot be started at enable time (captureStream
\* unsupported, no audio track, or an exception), the session does not
\* start: afterwards isEnabled is false and no flush timer or Persistent
\* connection belongs to the session.
C13_CaptureFailureStopsSession ==
    [][(\/ /\ ~isEnabled
           /\ activeVideo' # 0
           /\ apiMode' = "groq"
           /\ \E settings \in ApiModes \cup {"keep"} : enableSubtitles(settings, FALSE)
        \/ /\ activeVideo # 0
           /\ \E id \in DOMAIN sockets : sockets[id].awaited /\ onopen(id, FALSE))
       => /\ ~isEnabled'
          /\ sendInterval' = 0
          /\ websocket' = 0]_vars


\* C14: on every flush-timer tick while the session is Active, in either
\* transport mode and whatever the connection state, the audio buffer is
\* drained, so it never holds bursts appended before the previous tick.
C14_TickDrainsBuffer ==
    [][(lastOp'.op = "tick" /\ isEnabled /\ activeVideo # 0)
       => audioChunks' = <<>>]_vars


\* C15: when two RequestResponse dispatches are in flight and the result
\* for the later videoTime is delivered first, the result for the earlier
\* videoTime that arrives afterwards does not overwrite it: the videoTime of
\* the displayed subtitle never decreases.
C15_DisplayedTimeNeverDecreases ==
    [][(lastOp'.op = "completion" /\ displayed # 0 /\ displayed' # 0)
       => displayed' >= displayed]_vars


\* C16: when the RequestResponse backend answers a chunk's request with
\* HTTP 429, the request for that chunk is sent again after the retry-after
\* wait: the first rate-limit answer does not end the dispatch.
C16_RateLimitIsRetried ==
    [][\A i \in 1..Len(inflight) :
          (/\ phaseOf(inflight[i]) = "fetching"
           /\ inflight[i].fetches < MAX_RETRIES
           /\ onFetchSettled(i, "429"))
          => phaseOf(inflight'[i]) # "done"]_vars

\* C17: a chunk's dispatch under persistent rate limiting makes at most 3
\* request attempts and then resolves as a terminal failure: a rate-limited
\* request that is still pending has attempts left, and one that is
\* resolved carries an error, never a text.
C17_BoundedAttempts ==
    \A i \in 1..Len(inflight) :
        LET r == inflight[i]
        IN phaseOf(r) # "sent" =>
              /\ r.fetches <= MAX_RETRIES
              /\ r.status = "429" =>
                    /\ r.phase = "done" => r.result = "error"
                    /\ r.phase # "done" => r.fetches < MAX_RETRIES

\* a rate-limited request has been resolved
C17_Witness ==
    \E i \in 1..Len(inflight) :
        /\ phaseOf(inflight[i]) = "done"
        /\ inflight[i].status = "429"
        /\ inflight[i].result = "error"

\* C18: a RequestResponse call that fails with an error other than a rate
\* limit (missing API key, non-2xx other than 429, network or decode
\* failure) is attempted exactly once and is answered with an error result;
\* the content script shows nothing for it.
C18_OtherErrorsNotRetried ==
    [][/\ \A i \in 1..Len(inflight') :
             LET r == inflight'[i]
             IN /\ phaseOf(r) = "done" /\ r.status = "nokey"
                      => r.fetches = 0 /\ r.result = "error"
                /\ phaseOf(r) = "done" /\ r.status \in {"500", "network", "badJson"}
                      => r.fetches = 1 /\ r.result = "error"
                /\ phaseOf(r) = "fetching" => r.fetches = 1
       /\ \A i \in 1..Len(inflight), p \in SteadyProcTimes :
             (/\ phaseOf(inflight[i]) = "done"
              /\ inflight[i].status \in {"nokey", "500", "network", "badJson"}
              /\ onWorkerResponse(i, p))
             => displayed' = displayed]_vars

\* a request that failed with a server error has been answered
C18_Witness ==
    \E i \in 1..Len(inflight) :
        /\ phaseOf(inflight[i]) = "done"
        /\ inflight[i].status = "500"
        /\ inflight[i].fetches = 1
        /\ inflight[i].result = "error"


\* C19: while the session stays enabled, every loss of the Persistent
\* connection, the failure of a reconnect attempt included, is followed by
\* a new connection attempt after the fixed delay: the close of any socket
\* schedules a reconnect timeout, and the timeout, when it fires with the
\* session still enabled, creates a new connecting socket.
C19_LossIsFollowedByReconnect ==
    [][/\ \A id \in DOMAIN sockets :
             (isEnabled /\ onclose(id)) => reconnects' = reconnects + 1
       /\ (isEnabled /\ reconnectTimeout)
             => /\ websocket' \in DOMAIN sockets'
                /\ websocket' \notin DOMAIN sockets
                /\ sockets'[websocket'].state = "connecting"]_vars

\* a reconnect timeout has fired in an enabled session
C19_Witness ==
    /\ lastOp.op = "reconnect"
    /\ isEnabled
    /\ websocket \in DOMAIN sockets
    /\ sockets[websocket].state = "connecting"

\* C20: no Persistent connection attempt is initiated while isEnabled is
\* false: a reconnect timeout that fires after the session was disabled
\* does nothing, and every step that creates a socket leaves the session
\* enabled.
C20_NoConnectWhileDisabled ==
    [][/\ (\E id \in DOMAIN sockets' :
              /\ sockets'[id].state = "connecting"
              /\ id \in DOMAIN sockets => sockets[id].state # "connecting")
             => isEnabled'
       /\ (~isEnabled /\ reconnectTimeout)
             => /\ websocket' = websocket
                /\ sockets' = sockets]_vars

\* a reconnect timeout has fired after the session was disabled
C20_Witness ==
    /\ lastOp.op = "reconnect"
    /\ ~isEnabled
    /\ \A id \in DOMAIN sockets : sockets[id].state # "connecting"


\* C21: in Persistent mode a chunk is put on the wire at most once, and
\* audio belonging to a flush that coincided with a lost connection is
\* dropped: after a tick of an enabled local-mode session the buffer holds
\* nothing, whether the socket was open (the chunk was sent once) or the
\* connection was lost (the chunk was dropped), so nothing is left to
\* transmit after reconnection.
C21_LostConnectionDropsAudio ==
    [][(/\ lastOp'.op = "tick"
        /\ isEnabled
        /\ apiMode = "local"
        /\ activeVideo # 0
        /\ audioChunks # <<>>
        /\ websocket # 0
        /\ readyState(websocket) \in {"open", "closed"})
       => /\ audioChunks' = <<>>
          /\ lastOp'.sent <=> readyState(websocket) = "open"]_vars

\* C22: while a request is in flight, whatever the worker is doing with it
\* (not yet picked up, fetching, answered but not yet delivered), a connected
\* processor can append its burst and a registered interval can fire: the
\* only things that hold them back are the bounds MaxBuf and MaxInflight.
C22_InflightNeverBlocks ==
    inflight # <<>> =>
        /\ ((audioProcessor \/ orphanProcessor) /\ Len(audioChunks) < MaxBuf)
              => ENABLED onaudioprocess(<<1>>)
        /\ (DOMAIN timers # {} /\ Len(inflight) < MaxInflight)
              => ENABLED TimerTick

\* a burst was appended while the worker's fetch for an earlier chunk was
\* still pending
C22_Witness ==
    /\ lastOp.op = "onaudioprocess"
    /\ audioChunks # <<>>
    /\ \E i \in 1..Len(inflight) : phaseOf(inflight[i]) = "fetching"

\* C23: a request that completes with an error, be it the worker's {error}
\* answer or a rejected sendMessage, changes nothing of the session: the
\* chunk duration, the lag accumulator, the flush timer and isEnabled are
\* what they were before the completion.
C23_ErrorCompletionKeepsSession ==
    [][(\E i \in 1..Len(inflight) :
            \/ \E p \in ProcTimes : groqCompletion(i, "error", p)
            \/ groqCompletion(i, "throw", 0))
       => UNCHANGED <<currentChunkDuration, lagAccumulator, sendInterval, timers,
                      isEnabled>>]_vars

\* C24: a session that is running (isEnabled, a connected processor, the
\* flush interval registered) is still running after a failed request
\* (rate limit or any other error answer, or a rejected sendMessage), after
\* the loss of the WebSocket connection and its reconnect, and after a tick
\* that dropped its chunk for lag; the only steps after which a running
\* session no longer runs are disableSubtitles and a switch to a new video
\* whose capture cannot be started.
C24_ErrorsKeepSessionRunning ==
    [][LET running == /\ isEnabled
                      /\ audioProcessor
                      /\ sendInterval # 0
                      /\ sendInterval \in DOMAIN timers
       IN /\ (running /\ lastOp'.op \in {"completion", "onclose", "reconnect",
                                          "onopen", "tick"}) => running'
          /\ (running /\ ~running') => lastOp'.op \in {"disable", "newVideo"}]_vars

\* a running session whose request just failed after a short processing
\* time: the flush interval was restarted with the shorter period
C24_Witness ==
    /\ lastOp.op = "completion"
    /\ isEnabled
    /\ audioProcessor
    /\ currentChunkDuration = AUDIO_CHUNK_DURATION_MS - CHUNK_STEP_MS
    /\ sendInterval \in DOMAIN timers
    /\ timers[sendInterval] = currentChunkDuration

\* C25: a tick that dispatches sends the samples of every burst in the
\* buffer, burst after burst in the order of their capture, nothing else,
\* and leaves the buffer empty; a tick on an empty buffer dispatches
\* nothing; between ticks the capture callback only appends at the end, so
\* what successive dispatches carry is the captured stream, in order.
C25_FlushIsOrderedConcatenation ==
    [][LET RECURSIVE Concat(_)
           Concat(chunks) == IF chunks = <<>> THEN <<>>
                             ELSE Head(chunks) \o Concat(Tail(chunks))
       IN /\ (lastOp'.op = "tick" /\ lastOp'.sent)
                => /\ lastOp'.audio = Concat(audioChunks)
                   /\ audioChunks' = <<>>
          /\ (lastOp'.op = "tick" /\ audioChunks = <<>>)
                => /\ ~lastOp'.sent
                   /\ lastOp'.audio = <<>>
                   /\ inflight' = inflight
          /\ (lastOp'.op = "onaudioprocess" /\ isEnabled)
                => /\ Len(audioChunks') = Len(audioChunks) + 1
                   /\ SubSeq(audioChunks', 1, Len(audioChunks)) = audioChunks]_vars

\* a dispatch that merged a one-sample burst and the two-sample burst
\* captured after it
C25_Witness ==
    /\ lastOp.op = "tick"
    /\ lastOp.sent
    /\ lastOp.audio = int16Data(<<1>>) \o int16Data(<<-4, 4>>)
    /\ audioChunks = <<>>

\* C26: every answer of a backend is used as a timing sample: after the
\* worker's response in Groq mode and after a frame of the WebSocket in
\* local mode, the chunk duration is adaptChunkSize of the old duration and
\* the processing time of that call.
C26_EveryAnswerAdapts ==
    [][/\ \A i \in 1..Len(inflight), resp \in Responses \ {"throw"}, p \in ProcTimes :
            groqCompletion(i, resp, p)
                => currentChunkDuration' = adaptChunkSize(currentChunkDuration, p)
       /\ \A id \in DOMAIN sockets, resp \in Responses \ {"throw"}, p \in ProcTimes :
            onmessage(id, resp, NowEpoch + 3, p)
                => currentChunkDuration' = adaptChunkSize(currentChunkDuration, p)]_vars

\* C27: with a processing time of 500 ms on every call, adaptChunkSize
\* takes the duration from 3000 to 2500, from 2500 to 2000, and from 2000
\* to 2000: four calls from 3000 give 3000, 2500, 2000, 2000, 2000.
C27_FastCompletionsReachFloor ==
    [][(lastOp'.op = "adapt" /\ lastOp'.p = 500)
       => /\ currentChunkDuration = 3000 => currentChunkDuration' = 2500
          /\ currentChunkDuration = 2500 => currentChunkDuration' = 2000
          /\ currentChunkDuration = 2000 => currentChunkDuration' = 2000
          /\ LET d1 == adaptChunkSize(3000, 500)
                 d2 == adaptChunkSize(d1, 500)
                 d3 == adaptChunkSize(d2, 500)
                 d4 == adaptChunkSize(d3, 500)
             IN <<d1, d2, d3, d4>> = <<2500, 2000, 2000, 2000>>]_vars

\* a call with 500 ms at the floor, reached from 2500 by a call with 500 ms
C27_Witness ==
    /\ lastOp.op = "adapt"
    /\ lastOp.p = 500
    /\ lastOp.D = MIN_CHUNK_MS
    /\ currentChunkDuration = MIN_CHUNK_MS
    /\ DOMAIN timers # {}
    /\ timers[sendInterval] = MIN_CHUNK_MS

\* C28: while the playback rate of the active video is above 2.0 nothing is
\* dispatched: the tick that follows a change of the rate to more than 2.0,
\* with no other event in between, sends no chunk.
C28_NoDispatchAboveDoubleSpeed ==
    [][(/\ lastOp.op = "ratechange"
        /\ lastOp.rate > 20
        /\ lastOp'.op = "tick")
       => ~lastOp'.sent]_vars

\* C29: captured audio never leaves the machine: no request in flight has
\* been handed to fetch(), whose target is the Groq API on the internet.
C29_NoAudioLeavesTheMachine ==
    \A i \in 1..Len(inflight) :
        \/ phaseOf(inflight[i]) = "sent"
        \/ inflight[i].fetches = 0

C31_WavFraming ==
    lastOp.op = "wav" =>
        LET f == lastOp.file
            n == Len(lastOp.pcm)
            u16(k) == f[k + 1] + 256 * f[k + 2]
            u32(k) == f[k + 1] + 256 * f[k + 2] + 65536 * f[k + 3]
                      + 16777216 * f[k + 4]
            s16(k) == IF u16(k) >= 32768 THEN u16(k) - 65536 ELSE u16(k)
        IN /\ lastOp.pcm = mergedData(audioChunks)
           /\ Len(f) = 44 + 2 * n
           /\ \A k \in 1..Len(f) : f[k] \in 0..255
           /\ SubSeq(f, 1, 4) = <<82, 73, 70, 70>>
           /\ u32(4) = 36 + 2 * n
           /\ SubSeq(f, 9, 16) = <<87, 65, 86, 69, 102, 109, 116, 32>>
           /\ u32(16) = 16
           /\ u16(20) = 1
           /\ u16(22) = 1
           /\ u32(24) = 16000
           /\ u32(28) = 32000
           /\ u16(32) = 2
           /\ u16(34) = 16
           /\ SubSeq(f, 37, 40) = <<100, 97, 116, 97>>
           /\ u32(40) = 2 * n
           /\ \A i \in 1..n : s16(44 + 2 * (i - 1)) = lastOp.pcm[i]

\* the file of a chunk merged from two bursts, holding both extremes of
\* the 16-bit range and a negative sample
C31_Witness ==
    /\ lastOp.op = "wav"
    /\ lastOp.pcm = <<-256, 32767, -32768, 32767>>
    /\ Len(lastOp.file) = 52

\* C32: at most one flush interval is registered at any time.
C32_AtMostOneFlushTimer ==
    Cardinality(DOMAIN timers) <= 1

\* C33: at most one WebSocket is open or connecting at any time.
C33_AtMostOneConnection ==
    Cardinality({id \in DOMAIN sockets :
                    sockets[id].state \in {"connecting", "open"}}) <= 1

\* C34: whenever the session is enabled with apiMode 'local', a WebSocket
\* is open or connecting, or a reconnect timeout is pending.
C34_LocalSessionHasConnection ==
    (isEnabled /\ apiMode = "local")
        => \/ \E id \in DOMAIN sockets : sockets[id].state \in {"connecting", "open"}
           \/ reconnects > 0

\* C35: in Groq mode a buffer that holds a burst is eventually emptied, by a
\* flush (sent or dropped for lag) or by a reset, unless the session is
\* disabled first; restarts of the interval by completions do not prevent
\* it.
C35_BufferEventuallyDrained ==
    (isEnabled /\ audioChunks # <<>>) ~> (audioChunks = <<>> \/ ~isEnabled)

\* a completion has just restarted the interval with a new period while a
\* burst waits in the buffer
C35_Witness ==
    /\ lastOp.op = "completion"
    /\ isEnabled
    /\ audioChunks # <<>>
    /\ currentChunkDuration # AUDIO_CHUNK_DURATION_MS
    /\ sendInterval \in DOMAIN timers
    /\ timers[sendInterval] = currentChunkDuration

C37_DisabledBufferIsEmpty ==
    ~isEnabled => audioChunks = <<>>

\* a processor left connected fired after the session was disabled
C37_Witness ==
    /\ lastOp.op = "onaudioprocess"
    /\ ~isEnabled
    /\ orphanProcessor
    /\ audioChunks = <<>>

\* C38: an enable request that arrives while the session is disabled and the
\* page holds no video leaves the session as it was: isEnabled stays false
\* and no flush timer, capture or connection is created.
C38_EnableWithoutVideoChangesNothing ==
    [][(~isEnabled /\ pageVideos = {} /\ lastOp'.op = "enable")
       => /\ ~isEnabled'
          /\ UNCHANGED <<timers, sendInterval, audioProcessor, orphanProcessor,
                         sockets, websocket>>]_vars

\* C39: currentChunkDuration is always a multiple of 500, one of 2000, 2500,
\* ..., 6000, and a single adaptChunkSize call, made by the completion of a
\* request, changes it by exactly 0 or 500.
C39_DurationOnTheGrid ==
    /\ [](currentChunkDuration \in {2000 + 500 * k : k \in 0..8})
    /\ [][lastOp'.op = "completion"
          => \/ currentChunkDuration' = currentChunkDuration
             \/ currentChunkDuration' = currentChunkDuration + 500
             \/ currentChunkDuration' = currentChunkDuration - 500]_vars

\* a completion with a transcription on screen has left the duration at
\* 2500, one step off the initial 3000
C39_Witness ==
    /\ lastOp.op = "completion"
    /\ currentChunkDuration = 2500
    /\ displayed # 0

====
